---- MODULE Spec2Model ----
(***************************************************************************)
(* Model of app.py: the image validation / captioning tool.                *)
(*                                                                         *)
(* Text is modelled as a sequence of one-character strings, so that the    *)
(* regular expressions, str.strip, str.lower, os.path.splitext, int() and  *)
(* the CSV round trip of pandas are computed character by character.       *)
(***************************************************************************)
EXTENDS Integers, Sequences, FiniteSets, TLC

VARIABLES
    dir,                    \* the image folder on disk: file name -> file identity
    page, folder, shortname, valid, invalid, all_imgs, caption_index,
    confirm_caption_anyway, validate_message,
    cap_min, cap_max, landmark_filter, filter_applied,   \* st.session_state
    sn_text,                \* the value held by the shortname text_input widget
    aborted,                \* the last script run ended in an uncaught exception
    caps_file, land_file,   \* captions.csv, landmarks.csv (NoFile or rows of fields)
    pick_file,              \* TMP_PICK_PATH (NoFile or its text)
    tmp_file, dest_file, save_pc, save_old, save_new,    \* one save_csv_atomic call
    fin, fout,              \* inputs / result of a filter helper call
    last                    \* the last operation and what it was given; in Spec, the
                            \* notice the last run ended with

vars == <<dir, page, folder, shortname, valid, invalid, all_imgs, caption_index,
          confirm_caption_anyway, validate_message, cap_min, cap_max,
          landmark_filter, filter_applied, sn_text, aborted, caps_file, land_file,
          pick_file, tmp_file, dest_file, save_pc, save_old, save_new, fin, fout,
          last>>

sessionVars == <<page, folder, shortname, valid, invalid, all_imgs, caption_index,
                 confirm_caption_anyway, validate_message, cap_min, cap_max,
                 landmark_filter, filter_applied, sn_text, aborted>>
saveVars == <<tmp_file, dest_file, save_pc, save_old, save_new>>
filterVars == <<fin, fout>>

----------------------------------------------------------------------------
(* Characters and strings *)

Digits == <<"0", "1", "2", "3", "4", "5", "6", "7", "8", "9">>
UpperChars == <<"A", "B", "C", "D", "E", "F", "G", "H", "I", "J", "K", "L", "M",
                "N", "O", "P", "Q", "R", "S", "T", "U", "V", "W", "X", "Y", "Z">>
LowerChars == <<"a", "b", "c", "d", "e", "f", "g", "h", "i", "j", "k", "l", "m",
                "n", "o", "p", "q", "r", "s", "t", "u", "v", "w", "x", "y", "z">>
\* the characters the model uses, in code point order
AsciiOrder == <<" ", "+", ".", "/">> \o Digits \o UpperChars \o <<"_">> \o LowerChars

Range(s) == {s[i] : i \in DOMAIN s}
IsDigit(c) == c \in Range(Digits)
IsAlnum(c) == c \in Range(Digits) \cup Range(UpperChars) \cup Range(LowerChars)
IsSpace(c) == c = " "
Ord(c) == CHOOSE i \in DOMAIN AsciiOrder : AsciiOrder[i] = c
DigitVal(c) == (CHOOSE i \in DOMAIN Digits : Digits[i] = c) - 1

\* str.lower()
LowerChar(c) ==
    IF \E i \in DOMAIN UpperChars : UpperChars[i] = c
    THEN LowerChars[CHOOSE i \in DOMAIN UpperChars : UpperChars[i] = c]
    ELSE c
Lower(s) == [i \in DOMAIN s |-> LowerChar(s[i])]

EndsWith(s, suf) ==
    /\ Len(suf) <= Len(s)
    /\ SubSeq(s, Len(s) - Len(suf) + 1, Len(s)) = suf
StartsWith(s, pre) ==
    /\ Len(pre) <= Len(s)
    /\ SubSeq(s, 1, Len(pre)) = pre

\* str.strip()
RECURSIVE LStrip(_)
LStrip(s) == IF s # <<>> /\ IsSpace(Head(s)) THEN LStrip(Tail(s)) ELSE s
RECURSIVE RStrip(_)
RStrip(s) ==
    IF s # <<>> /\ IsSpace(s[Len(s)]) THEN RStrip(SubSeq(s, 1, Len(s) - 1)) ELSE s
Strip(s) == RStrip(LStrip(s))

\* int(digits)
RECURSIVE ParseInt(_)
ParseInt(s) ==
    IF s = <<>> THEN 0 ELSE 10 * ParseInt(SubSeq(s, 1, Len(s) - 1)) + DigitVal(s[Len(s)])

\* str(n) / f"{n}" for n >= 0
RECURSIVE FormatInt(_)
FormatInt(n) ==
    IF n < 10 THEN <<Digits[n + 1]>> ELSE FormatInt(n \div 10) \o <<Digits[(n % 10) + 1]>>

\* s < t as Python compares str: by code point, a proper prefix first
RECURSIVE StrLess(_, _)
StrLess(s, t) ==
    IF t = <<>> THEN FALSE
    ELSE IF s = <<>> THEN TRUE
    ELSE IF Head(s) # Head(t) THEN Ord(Head(s)) < Ord(Head(t))
    ELSE StrLess(Tail(s), Tail(t))

\* sorted(names) for distinct names
RECURSIVE SortedList(_)
SortedList(S) ==
    IF S = {} THEN <<>>
    ELSE LET m == CHOOSE x \in S : \A y \in S \ {x} : StrLess(x, y)
         IN  <<m>> \o SortedList(S \ {m})

----------------------------------------------------------------------------
(* Constants of app.py *)

ExtPng == <<".", "p", "n", "g">>
ExtJpg == <<".", "j", "p", "g">>
ExtJpeg == <<".", "j", "p", "e", "g">>
ExtBmp == <<".", "b", "m", "p">>
ExtGif == <<".", "g", "i", "f">>
ExtTiff == <<".", "t", "i", "f", "f">>
IMG_EXTS == {ExtPng, ExtJpg, ExtJpeg, ExtBmp, ExtGif, ExtTiff}

ImagePrefix == <<"i", "m", "a", "g", "e", "_">>
\* the landmark option "Any"
AnyOption == <<"A", "n", "y">>

----------------------------------------------------------------------------
(* Utilities: list_images, pattern_for, validate_images, highest_serial,   *)
(* rename_invalids_to_valid                                                *)

\* the length of the longest prefix of s made of digits (a greedy \d+)
RECURSIVE LeadingDigits(_)
LeadingDigits(s) ==
    IF s # <<>> /\ IsDigit(Head(s)) THEN 1 + LeadingDigits(Tail(s)) ELSE 0

\* sorted([f for f in os.listdir(folder) if f.lower().endswith(IMG_EXTS)])
list_images(d) ==
    SortedList({f \in DOMAIN d : \E e \in IMG_EXTS : EndsWith(Lower(f), e)})

\* pattern_for(shortname).match(f):
\*   ^image_<re.escape(shortname)>_(\d+)\.[A-Za-z0-9]+$
\* (no name of the model ends in a newline, the one case where $ is not the end)
PatMatchUnanchored(sn, f) ==
    LET pre == ImagePrefix \o sn \o <<"_">>
        rest == SubSeq(f, Len(pre) + 1, Len(f))
        nd == LeadingDigits(rest)
    IN  /\ StartsWith(f, pre)
        /\ nd >= 1
        /\ Len(rest) >= nd + 2
        /\ rest[nd + 1] = "."
        /\ IsAlnum(rest[nd + 2])
PatMatch(sn, f) ==
    LET pre == ImagePrefix \o sn \o <<"_">>
        rest == SubSeq(f, Len(pre) + 1, Len(f))
        nd == LeadingDigits(rest)
    IN  /\ StartsWith(f, pre)
        /\ nd >= 1
        /\ Len(rest) >= nd + 2
        /\ rest[nd + 1] = "."
        /\ \A i \in (nd + 2)..Len(rest) : IsAlnum(rest[i])

validate_images(d, sn) ==
    LET imgs == list_images(d)
    IN  [valids |-> SelectSeq(imgs, LAMBDA f : PatMatch(sn, f)),
         invalids |-> SelectSeq(imgs, LAMBDA f : ~PatMatch(sn, f)),
         imgs |-> imgs]

\* re.search(r"_(\d+)\.", name) succeeds at position i
SerialAt(name, i) ==
    /\ name[i] = "_"
    /\ LET nd == LeadingDigits(SubSeq(name, i + 1, Len(name)))
       IN  /\ nd >= 1
           /\ i + nd + 1 <= Len(name)
           /\ name[i + nd + 1] = "."
HasSerial(name) == \E i \in DOMAIN name : SerialAt(name, i)
\* int(m.group(1)) of the leftmost match
SerialOf(name) ==
    LET i == CHOOSE k \in DOMAIN name :
                 SerialAt(name, k) /\ \A j \in 1..(k - 1) : ~SerialAt(name, j)
        nd == LeadingDigits(SubSeq(name, i + 1, Len(name)))
    IN  ParseInt(SubSeq(name, i + 1, i + nd))

highest_serial(valid_images) ==
    LET nums == {SerialOf(valid_images[k]) :
                     k \in {j \in DOMAIN valid_images : HasSerial(valid_images[j])}}
    IN  IF nums # {} THEN CHOOSE n \in nums : \A m \in nums : m <= n ELSE 0

\* os.path.splitext(fname)[1]: from the last dot, unless only dots precede it
SplitExt(fname) ==
    LET dots == {i \in DOMAIN fname : fname[i] = "."}
        d == CHOOSE i \in dots : \A j \in dots : j <= i
    IN  IF dots # {} /\ \E j \in 1..(d - 1) : fname[j] # "."
        THEN SubSeq(fname, d, Len(fname))
        ELSE <<>>

\* f"image_{shortname}_{next_id}{ext}"
NewName(sn, next_id, fname) ==
    ImagePrefix \o sn \o <<"_">> \o FormatInt(next_id) \o SplitExt(fname)

\* os.rename(src, dst) on directory d: the destination, if it exists, is replaced
OsRename(d, src, dst) ==
    [n \in (DOMAIN d \ {src}) \cup {dst} |-> IF n = dst THEN d[src] ELSE d[n]]

\* The loop of rename_invalids_to_valid from its k-th file on.  os.rename raises
\* at file number failAt (a permission error), when the source is gone, or, where
\* the platform refuses to replace a file (replaces = FALSE), when the target exists.
RECURSIVE RenameLoop(_, _, _, _, _, _, _, _)
RenameLoop(d, sn, invalid_images, k, next_id, renamed, failAt, replaces) ==
    IF k > Len(invalid_images) THEN [dir |-> d, renamed |-> renamed, raised |-> FALSE]
    ELSE LET fname == invalid_images[k]
             new_name == NewName(sn, next_id, fname)
         IN  IF \/ k = failAt
                \/ fname \notin DOMAIN d
                \/ (~replaces /\ new_name \in DOMAIN d /\ new_name # fname)
             THEN [dir |-> d, renamed |-> renamed, raised |-> TRUE]
             ELSE RenameLoop(OsRename(d, fname, new_name), sn, invalid_images, k + 1,
                             next_id + 1, Append(renamed, <<fname, new_name>>),
                             failAt, replaces)

rename_invalids_to_valid(d, sn, valid_images, invalid_images, failAt, replaces) ==
    RenameLoop(d, sn, invalid_images, 1, highest_serial(valid_images) + 1, <<>>,
               failAt, replaces)

----------------------------------------------------------------------------
(* The CSV files as pandas reads and writes them (pandas 1.x / 2.x defaults). *)
(* A file is a sequence of rows <<image_name, field>> of text.  A DataFrame   *)
(* is a sequence of rows [img, val]; val is a cell [k, s]: a str (k = "str"), *)
(* an int64 or float64 number (s is its str()), or NaN (k = "nan").  Image    *)
(* names end in an extension, so that column is always read as str.           *)

TextNA == <<"N", "A">>
\* fields read_csv takes for a missing value (those of its default list that
\* can be spelt with the model's characters)
NAValues ==
    {<<>>, TextNA, <<"N", "/", "A">>, <<"N", "a", "N">>, <<"n", "a", "n">>,
     <<"n", "u", "l", "l">>, <<"N", "U", "L", "L">>, <<"n", "/", "a">>}

StrCell(s) == [k |-> "str", s |-> s]
NaNCell == [k |-> "nan", s |-> <<>>]

IsIntText(f) == f # <<>> /\ \A i \in DOMAIN f : IsDigit(f[i])
IsFloatText(f) ==
    /\ Cardinality({i \in DOMAIN f : f[i] = "."}) = 1
    /\ Len(f) >= 2
    /\ \A i \in DOMAIN f : IsDigit(f[i]) \/ f[i] = "."
IsNumberText(f) == IsIntText(f) \/ IsFloatText(f)

RECURSIVE StripTrailingZeros(_)
StripTrailingZeros(s) ==
    IF s # <<>> /\ s[Len(s)] = "0" THEN StripTrailingZeros(SubSeq(s, 1, Len(s) - 1))
    ELSE s
\* str(int(f)) and str(float(f)) for the number texts above
IntRepr(f) == FormatInt(ParseInt(f))
FloatRepr(f) ==
    IF IsIntText(f) THEN IntRepr(f) \o <<".", "0">>
    ELSE LET d == CHOOSE i \in DOMAIN f : f[i] = "."
             frac == StripTrailingZeros(SubSeq(f, d + 1, Len(f)))
         IN  IntRepr(SubSeq(f, 1, d - 1)) \o <<".">>
                 \o (IF frac = <<>> THEN <<"0">> ELSE frac)

\* read_csv's type inference on one column of fields
ColumnKind(fields) ==
    LET given == {i \in DOMAIN fields : fields[i] \notin NAValues}
    IN  IF given = {} THEN "empty"
        ELSE IF \A i \in given : IsIntText(fields[i])
             THEN (IF given = DOMAIN fields THEN "int" ELSE "float")
        ELSE IF \A i \in given : IsNumberText(fields[i]) THEN "float"
        ELSE "str"
ReadCell(kind, f) ==
    IF f \in NAValues THEN NaNCell
    ELSE IF kind = "int" THEN [k |-> "int", s |-> IntRepr(f)]
    ELSE IF kind = "float" THEN [k |-> "float", s |-> FloatRepr(f)]
    ELSE StrCell(f)

\* pd.read_csv(path)
read_csv(rows) ==
    LET kind == ColumnKind([i \in DOMAIN rows |-> rows[i][2]])
    IN  [i \in DOMAIN rows |-> [img |-> rows[i][1], val |-> ReadCell(kind, rows[i][2])]]

\* df.to_csv(path, index=False): NaN is written as the empty field
to_csv(df) == [i \in DOMAIN df |-> <<df[i].img, df[i].val.s>>]

\* ensure_csv(path, cols): the file afterwards, and the DataFrame returned
ensure_csv(file) ==
    LET f == IF file.exists THEN file ELSE [exists |-> TRUE, rows |-> <<>>]
    IN  [file |-> f, df |-> read_csv(f.rows)]

\* save_csv_atomic(df, path), run to completion
save_csv_atomic(df) == [exists |-> TRUE, rows |-> to_csv(df)]

\* "" if pd.isna(v) else str(v)
CellStr(c) == IF c.k = "nan" THEN <<>> ELSE c.s

\* dict.get(key, default)
MapGet(m, key, default) == IF key \in DOMAIN m THEN m[key] ELSE default

\* captions_map(df): image -> its captions in file order
captions_map(df) ==
    [img \in {df[i].img : i \in DOMAIN df} |->
        LET mine == SelectSeq(df, LAMBDA r : r.img = img)
        IN  [i \in DOMAIN mine |-> CellStr(mine[i].val)]]

\* landmarks_map(df): image -> its landmark, the last row of the image winning
landmarks_map(df) ==
    [img \in {df[i].img : i \in DOMAIN df} |->
        LET mine == SelectSeq(df, LAMBDA r : r.img = img)
        IN  CellStr(mine[Len(mine)].val)]

captions_of(df, img) == MapGet(captions_map(df), img, <<>>)
landmark_of(df, img) == MapGet(landmarks_map(df), img, <<>>)

\* df["caption"] == c for a str c: never true of a number or of NaN
CellEquals(c, text) == c.k = "str" /\ c.s = text

\* Save Landmark: upsert into df_land, save
LandmarkAlwaysAppend(file, img_name, new_landmark) ==
    LET df_land == ensure_csv(file).df
    IN  save_csv_atomic(Append(df_land, [img |-> img_name, val |-> StrCell(Strip(new_landmark))]))
SaveLandmarkStore(file, img_name, new_landmark) ==
    LET df_land == ensure_csv(file).df
        cell == StrCell(Strip(new_landmark))
    IN  IF \E i \in DOMAIN df_land : df_land[i].img = img_name
        THEN save_csv_atomic([i \in DOMAIN df_land |->
                 IF df_land[i].img = img_name
                 THEN [img |-> img_name, val |-> cell] ELSE df_land[i]])
        ELSE save_csv_atomic(Append(df_land, [img |-> img_name, val |-> cell]))

\* the delete button of caption c of img_name: drop the matching rows, save
DeleteCaptionStore(file, img_name, c) ==
    LET df_caps == ensure_csv(file).df
    IN  save_csv_atomic(SelectSeq(df_caps,
            LAMBDA r : ~(r.img = img_name /\ CellEquals(r.val, c))))

\* Add caption: append a row, save; nothing when the text is blank
AddCaptionStore(file, img_name, new_cap) ==
    IF Strip(new_cap) # <<>>
    THEN save_csv_atomic(Append(ensure_csv(file).df,
             [img |-> img_name, val |-> StrCell(Strip(new_cap))]))
    ELSE file

----------------------------------------------------------------------------
(* Filter helpers: build_filters, apply_filters *)

\* counts = [len(caps_map_full.get(img, [])) for img in valid_images]; 0..max
CountOptionsExclusive(valid_images, caps_map_full) ==
    LET counts == {Len(MapGet(caps_map_full, valid_images[i], <<>>)) :
                      i \in DOMAIN valid_images}
        max_count == IF counts # {} THEN CHOOSE n \in counts : \A m \in counts : m <= n
                     ELSE 0
    IN  [i \in 1..max_count |-> i - 1]
CountOptions(valid_images, caps_map_full) ==
    LET counts == {Len(MapGet(caps_map_full, valid_images[i], <<>>)) :
                      i \in DOMAIN valid_images}
        max_count == IF counts # {} THEN CHOOSE n \in counts : \A m \in counts : m <= n
                     ELSE 0
    IN  [i \in 1..(max_count + 1) |-> i - 1]

\* ["Any"] + sorted(landmark_set)
LandmarkOptionsUnsorted(valid_images, landmarks_full) ==
    LET lms == [i \in DOMAIN valid_images |-> MapGet(landmarks_full, valid_images[i], <<>>)]
    IN  <<AnyOption>> \o SelectSeq(lms, LAMBDA l : l # <<>>)
LandmarkOptions(valid_images, landmarks_full) ==
    LET landmark_set == {MapGet(landmarks_full, valid_images[i], <<>>) :
                            i \in DOMAIN valid_images} \ {<<>>}
    IN  <<AnyOption>> \o SortedList(landmark_set)

build_filters(valid_images, caps_map_full, landmarks_full) ==
    [count_options |-> CountOptions(valid_images, caps_map_full),
     landmark_options |-> LandmarkOptions(valid_images, landmarks_full)]

\* apply_filters with the lower bound taken strictly (cnt <= cap_min is dropped)
RECURSIVE ApplyFiltersStrictMin(_, _, _, _, _, _)
ApplyFiltersStrictMin(valid_images, caps_map_full, landmarks_full, c_min, c_max, lm_filter) ==
    IF valid_images = <<>> THEN <<>>
    ELSE LET img == Head(valid_images)
             cnt == Len(MapGet(caps_map_full, img, <<>>))
             lm == MapGet(landmarks_full, img, <<>>)
             rest == ApplyFiltersStrictMin(Tail(valid_images), caps_map_full,
                                           landmarks_full, c_min, c_max, lm_filter)
         IN  IF cnt <= c_min \/ cnt > c_max THEN rest
             ELSE IF lm_filter # AnyOption /\ lm # lm_filter THEN rest
             ELSE <<img>> \o rest

\* the loop of apply_filters, image by image
RECURSIVE apply_filters(_, _, _, _, _, _)
apply_filters(valid_images, caps_map_full, landmarks_full, c_min, c_max, lm_filter) ==
    IF valid_images = <<>> THEN <<>>
    ELSE LET img == Head(valid_images)
             cnt == Len(MapGet(caps_map_full, img, <<>>))
             lm == MapGet(landmarks_full, img, <<>>)
             rest == apply_filters(Tail(valid_images), caps_map_full, landmarks_full,
                                   c_min, c_max, lm_filter)
         IN  IF cnt < c_min \/ cnt > c_max THEN rest
             ELSE IF lm_filter # AnyOption /\ lm # lm_filter THEN rest
             ELSE <<img>> \o rest

----------------------------------------------------------------------------
(* Values shared by the specifications *)

NoMessage == [text |-> "", n |-> 0]
NoFile == [exists |-> FALSE, rows |-> <<>>]

\* init_state(): the session of a fresh browser tab
SessionInit ==
    /\ page = "select"
    /\ folder = <<>>            \* None: the code only tests its truth value
    /\ shortname = <<>>
    /\ valid = <<>>
    /\ invalid = <<>>
    /\ all_imgs = <<>>
    /\ caption_index = 0
    /\ confirm_caption_anyway = FALSE
    /\ validate_message = NoMessage
    /\ cap_min = 0
    /\ cap_max = 10
    /\ landmark_filter = AnyOption
    /\ filter_applied = FALSE
    /\ sn_text = <<>>
    /\ aborted = FALSE

StoreIdle == caps_file = NoFile /\ land_file = NoFile /\ pick_file = NoFile
SaveIdle ==
    /\ tmp_file = NoFile
    /\ dest_file = NoFile
    /\ save_pc = "idle"
    /\ save_old = NoFile
    /\ save_new = <<>>
FilterIdle == fin = [caps |-> <<>>, land |-> <<>>] /\ fout = <<>>

----------------------------------------------------------------------------
(* File names and shortnames the folder and the operator are drawn from *)

NameA1 == ImagePrefix \o <<"a", "_", "1">> \o ExtPng
NameA3 == ImagePrefix \o <<"a", "_", "3">> \o ExtJpg
NamePhoto == <<"p", "h", "o", "t", "o">> \o ExtJpg
NameUpper == <<"x", ".", "P", "N", "G">>
NameDot2 == ImagePrefix \o <<"1", ".", "x", "_", "2">> \o ExtPng
NameY3 == ImagePrefix \o <<"1", "y", "x", "_", "3">> \o ExtPng
NameTwoExt == ImagePrefix \o <<"a", "_", "1", ".", "x">> \o ExtPng
NameNotes == <<"n", "o", "t", "e", "s", ".", "t", "x", "t">>
NameHidden == ExtPng
CandidateNames ==
    {NameA1, NameA3, NamePhoto, NameUpper, NameDot2, NameY3, NameTwoExt, NameNotes,
     NameHidden}

\* texts the operator types as captions and landmarks
TextH == <<"h">>
TextPadH == <<" ", "h">>
TextBlank == <<" ">>
TextSeven == <<"7">>
TextK == <<"k">>
TextPadK == <<"k", " ">>

ShortA == <<"a">>
ShortDot == <<"1", ".", "x">>
Shortnames == {ShortA, ShortDot}

MaxFiles == 3
\* a folder is repaired again only while fewer than this many files were renamed
MaxRenamed == 1

\* a folder holding the files S, each file identified by the name it has now
FolderOf(S) == [n \in S |-> n]

----------------------------------------------------------------------------
(* SpecFiles: the classifier and the renamer on every small folder *)

InitFiles ==
    /\ \E S \in SUBSET CandidateNames : Cardinality(S) <= MaxFiles /\ dir = FolderOf(S)
    /\ SessionInit
    /\ StoreIdle /\ SaveIdle /\ FilterIdle
    /\ last = [op |-> "init"]

\* valids, invalids, all_imgs = validate_images(folder, shortname), stored
ClassifyF(sn) ==
    LET r == validate_images(dir, sn)
    IN  /\ sn_text' = sn
        /\ shortname' = sn
        /\ valid' = r.valids
        /\ invalid' = r.invalids
        /\ all_imgs' = r.imgs
        /\ last' = [op |-> "classify"]
        /\ UNCHANGED <<dir, page, folder, caption_index, confirm_caption_anyway,
                       validate_message, cap_min, cap_max, landmark_filter,
                       filter_applied, aborted, caps_file, land_file, pick_file>>
        /\ UNCHANGED <<saveVars, filterVars>>

\* rename_invalids_to_valid(folder, shortname, valids, invalids) on what
\* validate_images has just returned
RenameF(failAt, replaces) ==
    /\ last.op = "classify"
    /\ invalid # <<>>
    /\ Cardinality({n \in DOMAIN dir : dir[n] # n}) < MaxRenamed
    /\ LET r == rename_invalids_to_valid(dir, shortname, valid, invalid, failAt, replaces)
       IN  /\ dir' = r.dir
           /\ last' = [op |-> "rename", renamed |-> r.renamed, raised |-> r.raised,
                       dir0 |-> dir]
    /\ UNCHANGED <<sessionVars, caps_file, land_file, pick_file, saveVars, filterVars>>

NextFiles ==
    \/ \E sn \in Shortnames : ClassifyF(sn)
    \/ \E failAt \in 0..MaxFiles, replaces \in BOOLEAN : RenameF(failAt, replaces)

SpecFiles == InitFiles /\ [][NextFiles]_vars

----------------------------------------------------------------------------
(* Spec: one session of the app.  Each action is one run of the script for  *)
(* one thing the operator does, together with the run that st.rerun() then  *)
(* starts; a button can be pressed only if the last run has drawn it.       *)

FolderD == <<"/", "d">>
FolderPadded == <<"/", "d", " ">>
\* what the helper process may write into TMP_PICK_PATH
PickContents == {FolderPadded, <<>>, <<" ">>}

SessionShortnames == {ShortA, <<>>, <<" ">>}
SessionCaptions == {TextH, TextBlank}
SessionLandmarks == {TextK}
SessionFolders ==
    {FolderOf({NameA1, NamePhoto})}
MaxCaps == 1

Init ==
    /\ dir \in SessionFolders
    /\ SessionInit
    /\ StoreIdle /\ SaveIdle /\ FilterIdle
    /\ last = [op |-> "run"]

\* browse_folder_native_blocking(): the file at TMP_PICK_PATH afterwards and the
\* value returned (<<>> for None).  removeFails: os.remove raises (and is
\* ignored); how: the helper script cannot be written ("script"), the helper
\* cannot be launched ("launch"), the helper ends without writing its result
\* ("nowrite"), or it writes content ("write"); readFails: reading it back raises.
browse_folder_native_blocking(pick, removeFails, how, content, readFails) ==
    LET removed == IF pick.exists /\ ~removeFails THEN NoFile ELSE pick
        written == IF how = "write" THEN [exists |-> TRUE, rows |-> content] ELSE removed
    IN  IF how \in {"script", "launch"} THEN [file |-> removed, ret |-> <<>>]
        ELSE [file |-> written,
              ret |-> IF written.exists /\ ~readFails THEN Strip(written.rows) ELSE <<>>]

\* page_validation, lines 213-227: what the session holds after the shortname box
\* shows text and the folder is d
ValidateStore(d, text) ==
    IF Strip(text) = <<>>
    THEN [shortname |-> shortname, valid |-> valid, invalid |-> invalid,
          all_imgs |-> all_imgs]
    ELSE LET r == validate_images(d, text)
         IN  [shortname |-> text, valid |-> r.valids, invalid |-> r.invalids,
              all_imgs |-> r.imgs]

\* page_captioning, lines 366-373, on the files as they are
Filtered(v, cf, lf, c_min, c_max, lm_filter) ==
    apply_filters(v, captions_map(read_csv(cf.rows)), landmarks_map(read_csv(lf.rows)),
                  c_min, c_max, lm_filter)

\* idx = max(0, caption_index): the upper end left out
ClampBelowOnly(idx, n) == IF idx > 0 THEN idx ELSE 0

\* idx = max(0, min(caption_index, len(filtered_images) - 1))
ClampIndex(idx, n) ==
    LET m == IF idx < n - 1 THEN idx ELSE n - 1
    IN  IF m > 0 THEN m ELSE 0

\* page_captioning, lines 362-381: caption_index after a run of the page
RenderIndex(v, cf, lf, c_min, c_max, lm_filter, idx) ==
    LET filtered == Filtered(v, cf, lf, c_min, c_max, lm_filter)
    IN  IF v = <<>> \/ filtered = <<>> THEN idx ELSE ClampIndex(idx, Len(filtered))

\* what the last run of the script has drawn
ValidateFull == page = "validate" /\ Strip(sn_text) # <<>>
GoVisible == ValidateFull /\ ~aborted
ConfirmVisible == GoVisible /\ confirm_caption_anyway /\ Len(invalid) > 0
CaptionFull ==
    /\ page = "caption"
    /\ caps_file.exists /\ land_file.exists
    /\ valid # <<>>
    /\ Filtered(valid, caps_file, land_file, cap_min, cap_max, landmark_filter) # <<>>
storeVars == <<caps_file, land_file>>
otherVars == <<saveVars, filterVars>>
filterCriteria == <<cap_min, cap_max, landmark_filter, filter_applied>>

(* Page 1: folder selection *)

\* "Select Folder" is pressed
SelectFolder(removeFails, how, content, readFails) ==
    /\ page = "select"
    /\ LET b == browse_folder_native_blocking(pick_file, removeFails, how, content,
                                               readFails)
           v == ValidateStore(dir, shortname)
       IN  /\ pick_file' = b.file
           /\ IF b.ret # <<>>
              THEN /\ folder' = b.ret
                   /\ page' = "validate"
                   /\ sn_text' = shortname
                   /\ shortname' = v.shortname
                   /\ valid' = v.valid
                   /\ invalid' = v.invalid
                   /\ all_imgs' = v.all_imgs
              ELSE UNCHANGED <<folder, page, sn_text, shortname, valid, invalid, all_imgs>>
           /\ last' = [op |-> "run"]
    /\ aborted' = FALSE
    /\ UNCHANGED <<dir, caption_index, confirm_caption_anyway, validate_message,
                   filterCriteria, storeVars, otherVars>>

(* Page 2: validation *)

\* "Back to folder selection"
BackToSelect ==
    /\ page = "validate"
    /\ page' = "select"
    /\ sn_text' = shortname
    /\ aborted' = FALSE
    /\ last' = [op |-> "run"]
    /\ UNCHANGED <<dir, folder, shortname, valid, invalid, all_imgs, caption_index,
                   confirm_caption_anyway, validate_message, filterCriteria,
                   pick_file, storeVars, otherVars>>

\* text is entered in the shortname box
SubmitShortname(text) ==
    /\ page = "validate"
    /\ sn_text' = text
    /\ LET v == ValidateStore(dir, text)
       IN  /\ shortname' = v.shortname
           /\ valid' = v.valid
           /\ invalid' = v.invalid
           /\ all_imgs' = v.all_imgs
    /\ aborted' = FALSE
    /\ last' = [op |-> "run"]
    /\ UNCHANGED <<dir, page, folder, caption_index, confirm_caption_anyway,
                   validate_message, filterCriteria, pick_file, storeVars, otherVars>>

\* "Validate all invalid images (rename)"
RenameClick(failAt, replaces) ==
    /\ ValidateFull
    /\ ValidateStore(dir, sn_text).invalid # <<>> =>
           Cardinality({n \in DOMAIN dir : dir[n] # n}) < MaxRenamed
    /\ LET v == ValidateStore(dir, sn_text)
           r == rename_invalids_to_valid(dir, v.shortname, v.valid, v.invalid,
                                         failAt, replaces)
           again == validate_images(r.dir, sn_text)
       IN  IF v.invalid # <<>>
           THEN /\ dir' = r.dir
                /\ shortname' = v.shortname
                /\ aborted' = r.raised
                /\ IF r.raised
                   THEN /\ valid' = v.valid
                        /\ invalid' = v.invalid
                        /\ all_imgs' = v.all_imgs
                        /\ UNCHANGED validate_message
                   ELSE /\ valid' = again.valids
                        /\ invalid' = again.invalids
                        /\ all_imgs' = again.imgs
                        /\ validate_message' = [text |-> "Renamed", n |-> Len(r.renamed)]
                /\ last' = [op |-> "run"]
           ELSE /\ shortname' = v.shortname
                /\ valid' = v.valid
                /\ invalid' = v.invalid
                /\ all_imgs' = v.all_imgs
                /\ aborted' = FALSE
                /\ validate_message' = [text |-> "No invalid images to rename.", n |-> 0]
                /\ last' = [op |-> "run"]
                /\ UNCHANGED dir
    /\ UNCHANGED <<page, folder, caption_index, confirm_caption_anyway, sn_text,
                   filterCriteria, pick_file, storeVars, otherVars>>

\* len(st.session_state.invalid) > 0
GoNeverConfirms(inv) == FALSE
GoNeedsConfirm(inv) == Len(inv) > 0

\* "Go to captioning"
GoToCaptioning ==
    /\ GoVisible
    /\ LET v == ValidateStore(dir, sn_text)
           cf == ensure_csv(caps_file).file
           lf == ensure_csv(land_file).file
       IN  /\ shortname' = v.shortname
           /\ valid' = v.valid
           /\ invalid' = v.invalid
           /\ all_imgs' = v.all_imgs
           /\ IF GoNeedsConfirm(v.invalid)
              THEN /\ confirm_caption_anyway' = TRUE
                   /\ UNCHANGED <<page, caption_index, storeVars>>
              ELSE /\ confirm_caption_anyway' = FALSE
                   /\ page' = "caption"
                   /\ caps_file' = cf
                   /\ land_file' = lf
                   /\ caption_index' = RenderIndex(v.valid, cf, lf, cap_min, cap_max,
                                                    landmark_filter, caption_index)
    /\ last' = [op |-> "run"]
    /\ UNCHANGED <<dir, folder, validate_message, sn_text, aborted, filterCriteria,
                   pick_file, otherVars>>

\* "Proceed anyway (valid images only)"
ProceedAnyway ==
    /\ ConfirmVisible
    /\ LET v == ValidateStore(dir, sn_text)
           cf == ensure_csv(caps_file).file
           lf == ensure_csv(land_file).file
       IN  /\ shortname' = v.shortname
           /\ valid' = v.valid
           /\ invalid' = v.invalid
           /\ all_imgs' = v.all_imgs
           /\ page' = "caption"
           /\ caps_file' = cf
           /\ land_file' = lf
           /\ caption_index' = RenderIndex(v.valid, cf, lf, cap_min, cap_max,
                                            landmark_filter, 0)
    /\ last' = [op |-> "run"]
    /\ UNCHANGED <<dir, folder, confirm_caption_anyway, validate_message, sn_text,
                   aborted, filterCriteria, pick_file, otherVars>>

\* "Cancel" of the confirmation
CancelConfirm ==
    /\ ConfirmVisible
    /\ confirm_caption_anyway' = FALSE
    /\ LET v == ValidateStore(dir, sn_text)
       IN  /\ shortname' = v.shortname
           /\ valid' = v.valid
           /\ invalid' = v.invalid
           /\ all_imgs' = v.all_imgs
    /\ last' = [op |-> "run"]
    /\ UNCHANGED <<dir, page, folder, caption_index, validate_message, sn_text, aborted,
                   filterCriteria, pick_file, storeVars, otherVars>>


(* Page 3: captioning *)

\* idx and img_name of a run that draws the whole page
ShownIndex ==
    ClampIndex(caption_index,
               Len(Filtered(valid, caps_file, land_file, cap_min, cap_max,
                            landmark_filter)))
ShownImage ==
    Filtered(valid, caps_file, land_file, cap_min, cap_max, landmark_filter)
        [ShownIndex + 1]

captionFrame == <<dir, page, folder, shortname, valid, invalid, all_imgs,
                  confirm_caption_anyway, validate_message, sn_text, aborted,
                  pick_file, otherVars>>

\* "Back to validation" starting the validation afresh: filters forgotten
BackForgetsFilters ==
    /\ page = "caption"
    /\ page' = "validate"
    /\ sn_text' = shortname
    /\ cap_min' = 0
    /\ cap_max' = 10
    /\ landmark_filter' = AnyOption
    /\ filter_applied' = FALSE
    /\ last' = [op |-> "run"]
    /\ UNCHANGED <<dir, folder, shortname, valid, invalid, all_imgs, caption_index,
                   confirm_caption_anyway, validate_message, aborted, pick_file,
                   storeVars, otherVars>>

\* "Back to validation"
BackToValidation ==
    /\ page = "caption"
    /\ page' = "validate"
    /\ sn_text' = shortname
    /\ LET v == ValidateStore(dir, shortname)
       IN  /\ shortname' = v.shortname
           /\ valid' = v.valid
           /\ invalid' = v.invalid
           /\ all_imgs' = v.all_imgs
    /\ last' = [op |-> "run"]
    /\ UNCHANGED <<dir, folder, caption_index, confirm_caption_anyway, validate_message,
                   aborted, filterCriteria, pick_file, storeVars, otherVars>>

\* c_min > c_max
FilterNeverRejected(c_min, c_max) == FALSE
FilterRejected(c_min, c_max) == c_min > c_max

\* "Apply Filter" with the three select boxes at c_min, c_max, lm_choice
ApplyFilter(c_min, c_max, lm_choice) ==
    /\ page = "caption"
    /\ LET options == build_filters(valid, captions_map(read_csv(caps_file.rows)),
                                    landmarks_map(read_csv(land_file.rows)))
       IN  /\ c_min \in Range(options.count_options)
           /\ c_max \in Range(options.count_options)
           /\ lm_choice \in Range(options.landmark_options)
    /\ IF FilterRejected(c_min, c_max)
       THEN /\ UNCHANGED filterCriteria
            /\ caption_index' = RenderIndex(valid, caps_file, land_file, cap_min,
                                             cap_max, landmark_filter, caption_index)
            /\ last' = [op |-> "min_gt_max"]
       ELSE /\ cap_min' = c_min
            /\ cap_max' = c_max
            /\ landmark_filter' = lm_choice
            /\ filter_applied' = TRUE
            /\ caption_index' = RenderIndex(valid, caps_file, land_file, c_min, c_max,
                                             lm_choice, caption_index)
            /\ last' = [op |-> "run"]
    /\ UNCHANGED <<captionFrame, storeVars>>

\* "Save Landmark" with new_landmark in the landmark box
SaveLandmark(new_landmark) ==
    /\ CaptionFull
    /\ land_file' = SaveLandmarkStore(land_file, ShownImage, new_landmark)
    /\ caption_index' = RenderIndex(valid, caps_file, land_file', cap_min, cap_max,
                                     landmark_filter, ShownIndex)
    /\ last' = [op |-> "run"]
    /\ UNCHANGED <<captionFrame, filterCriteria, caps_file>>

\* "Prev"
Prev ==
    /\ CaptionFull
    /\ caption_index' = IF ShownIndex > 0 THEN ShownIndex - 1 ELSE ShownIndex
    /\ last' = [op |-> "run"]
    /\ UNCHANGED <<captionFrame, filterCriteria, storeVars>>

\* "Next"
NextImage ==
    /\ CaptionFull
    /\ caption_index' =
           IF ShownIndex < Len(Filtered(valid, caps_file, land_file, cap_min, cap_max,
                                        landmark_filter)) - 1
           THEN ShownIndex + 1 ELSE ShownIndex
    /\ last' = [op |-> "run"]
    /\ UNCHANGED <<captionFrame, filterCriteria, storeVars>>

\* the delete button of the i-th caption listed for the image on display
DeleteCaption(i) ==
    /\ CaptionFull
    /\ LET existing == captions_of(read_csv(caps_file.rows), ShownImage)
       IN  /\ i \in DOMAIN existing
           /\ caps_file' = DeleteCaptionStore(caps_file, ShownImage, existing[i])
           /\ last' = [op |-> "run"]
    /\ caption_index' = RenderIndex(valid, caps_file', land_file, cap_min, cap_max,
                                     landmark_filter, ShownIndex)
    /\ UNCHANGED <<captionFrame, filterCriteria, land_file>>

\* "Add caption" with new_cap in the caption box
AddCaption(new_cap) ==
    /\ CaptionFull
    /\ Strip(new_cap) # <<>> => Len(caps_file.rows) < MaxCaps
    /\ caps_file' = AddCaptionStore(caps_file, ShownImage, new_cap)
    /\ caption_index' = RenderIndex(valid, caps_file', land_file, cap_min, cap_max,
                                     landmark_filter, ShownIndex)
    /\ last' = [op |-> IF Strip(new_cap) = <<>> THEN "caption_empty" ELSE "run"]
    /\ UNCHANGED <<captionFrame, filterCriteria, land_file>>

\* "Save captions file"
SaveCaptionsFile ==
    /\ CaptionFull
    /\ caps_file' = save_csv_atomic(ensure_csv(caps_file).df)
    /\ caption_index' = ShownIndex
    /\ last' = [op |-> "run"]
    /\ UNCHANGED <<captionFrame, filterCriteria, land_file>>

Next ==
    \/ \E removeFails \in BOOLEAN, how \in {"script", "launch", "nowrite", "write"},
          content \in PickContents, readFails \in BOOLEAN :
           /\ how # "write" => content = <<>>
           /\ SelectFolder(removeFails, how, content, readFails)
    \/ BackToSelect
    \/ \E text \in SessionShortnames : SubmitShortname(text)
    \/ \E failAt \in 0..MaxFiles, replaces \in BOOLEAN : RenameClick(failAt, replaces)
    \/ GoToCaptioning
    \/ ProceedAnyway
    \/ CancelConfirm
    \/ BackToValidation
    \/ \E c_min \in 0..MaxCaps, c_max \in 0..MaxCaps,
          lm_choice \in {AnyOption} \cup SessionLandmarks :
           ApplyFilter(c_min, c_max, lm_choice)
    \/ \E text \in SessionLandmarks : SaveLandmark(text)
    \/ Prev
    \/ NextImage
    \/ \E i \in 1..MaxCaps : DeleteCaption(i)
    \/ \E text \in SessionCaptions : AddCaption(text)
    \/ SaveCaptionsFile

Spec == Init /\ [][Next]_vars

----------------------------------------------------------------------------
(* SpecCaps and SpecLand: the operations of the Annotate page on captions.csv *)
(* and on landmarks.csv, from a missing or header-only file                   *)

CaptionInputs == {TextH, TextPadH, TextBlank, <<>>, TextNA, TextSeven}
LandmarkInputs == {TextK, TextPadK, <<>>, TextNA, TextSeven}
StoreImages == {NameA1, NameA3}

MaxRows == 3

NoOp == [op |-> "init", img |-> <<>>, text |-> <<>>, before |-> NoFile]
Brief(l) == [op |-> l.op, img |-> l.img, text |-> l.text, before |-> l.before]

InitCaps ==
    /\ dir = FolderOf(StoreImages)
    /\ SessionInit /\ SaveIdle /\ FilterIdle
    /\ caps_file \in {NoFile, [exists |-> TRUE, rows |-> <<>>]}
    /\ land_file = NoFile
    /\ pick_file = NoFile
    /\ last = [NoOp EXCEPT !.before = caps_file] @@ [prev |-> NoOp]

capsFrame == <<dir, sessionVars, land_file, pick_file, saveVars, filterVars>>

\* "Add caption" with new_cap typed for image img
AddCaptionC(img, new_cap) ==
    /\ Len(caps_file.rows) < MaxRows
    /\ caps_file' = AddCaptionStore(ensure_csv(caps_file).file, img, new_cap)
    /\ last' = [op |-> "add", img |-> img, text |-> new_cap,
                before |-> ensure_csv(caps_file).file, prev |-> Brief(last)]
    /\ UNCHANGED capsFrame

\* the delete button of the idx-th caption listed for image img
DeleteCaptionC(img, idx) ==
    LET existing == captions_of(ensure_csv(caps_file).df, img)
    IN  /\ idx \in DOMAIN existing
        /\ caps_file' = DeleteCaptionStore(caps_file, img, existing[idx])
        /\ last' = [op |-> "delete", img |-> img, text |-> existing[idx],
                    before |-> caps_file, prev |-> Brief(last)]
        /\ UNCHANGED capsFrame

\* "Save captions file": read the file and save it again
SaveCaptionsC ==
    /\ last.op # "save"
    /\ caps_file' = save_csv_atomic(ensure_csv(caps_file).df)
    /\ last' = [op |-> "save", img |-> <<>>, text |-> <<>>,
                before |-> ensure_csv(caps_file).file, prev |-> Brief(last)]
    /\ UNCHANGED capsFrame

NextCaps ==
    \/ \E img \in StoreImages, t \in CaptionInputs : AddCaptionC(img, t)
    \/ \E img \in StoreImages, idx \in 1..MaxRows : DeleteCaptionC(img, idx)
    \/ SaveCaptionsC

SpecCaps == InitCaps /\ [][NextCaps]_vars

InitLand ==
    /\ dir = FolderOf(StoreImages)
    /\ SessionInit /\ SaveIdle /\ FilterIdle
    /\ caps_file = NoFile
    /\ land_file \in {NoFile, [exists |-> TRUE, rows |-> <<>>]}
    /\ pick_file = NoFile
    /\ last = [NoOp EXCEPT !.before = land_file] @@ [prev |-> NoOp]

\* "Save Landmark" with new_landmark typed for image img
SaveLandmarkL(img, new_landmark) ==
    /\ land_file' = SaveLandmarkStore(land_file, img, new_landmark)
    /\ last' = [op |-> "landmark", img |-> img, text |-> new_landmark,
                before |-> ensure_csv(land_file).file, prev |-> Brief(last)]
    /\ UNCHANGED <<dir, sessionVars, caps_file, pick_file, saveVars, filterVars>>

NextLand == \E img \in StoreImages, t \in LandmarkInputs : SaveLandmarkL(img, t)

SpecLand == InitLand /\ [][NextLand]_vars

----------------------------------------------------------------------------
(* SpecFilter: build_filters and apply_filters on every small input.  The  *)
(* image list is valid, the criteria are cap_min, cap_max, landmark_filter, *)
(* the two maps are fin.caps and fin.land, the value returned is fout.      *)

FilterImages == {NameA1, NameA3, NamePhoto}
\* the images the maps may know; NamePhoto is in neither map
MappedImages == {NameA1, NameA3}
MaxCount == 2

\* the lists of distinct images
DistinctLists(S) ==
    UNION {{q \in [1..n -> S] : \A i, j \in 1..n : i # j => q[i] # q[j]} :
              n \in 0..Cardinality(S)}

InitFilter ==
    /\ dir = FolderOf(FilterImages)
    /\ page = "caption"
    /\ folder = <<"/", "d">>
    /\ shortname = ShortA
    /\ valid \in DistinctLists(FilterImages)
    /\ invalid = <<>>
    /\ all_imgs = <<>>
    /\ caption_index = 0
    /\ confirm_caption_anyway = FALSE
    /\ validate_message = NoMessage
    /\ cap_min \in 0..MaxCount
    /\ cap_max \in 0..MaxCount
    /\ landmark_filter \in {AnyOption, TextK, <<>>}
    /\ filter_applied = TRUE
    /\ sn_text = ShortA
    /\ aborted = FALSE
    /\ StoreIdle /\ SaveIdle
    /\ \E n \in [MappedImages -> 0..MaxCount], D \in SUBSET MappedImages :
           \E l \in [D -> {<<>>, TextK, TextH}] :
               fin = [caps |-> [img \in {m \in MappedImages : n[m] > 0} |->
                                   [i \in 1..n[img] |-> TextH]],
                      land |-> l]
    /\ fout = <<>>
    /\ last = [op |-> "init"]

BuildFiltersF ==
    /\ fout' = build_filters(valid, fin.caps, fin.land)
    /\ last' = [op |-> "build"]
    /\ UNCHANGED <<dir, sessionVars, caps_file, land_file, pick_file, saveVars, fin>>

ApplyFiltersF ==
    /\ fout' = apply_filters(valid, fin.caps, fin.land, cap_min, cap_max, landmark_filter)
    /\ last' = [op |-> "apply"]
    /\ UNCHANGED <<dir, sessionVars, caps_file, land_file, pick_file, saveVars, fin>>

NextFilter == BuildFiltersF \/ ApplyFiltersF

SpecFilter == InitFilter /\ [][NextFilter]_vars

----------------------------------------------------------------------------
(* SpecAtomic: save_csv_atomic(df, path) step by step, the process being    *)
(* killed at any step.  dest_file is the file at path, tmp_file the file at *)
(* path + ".tmp", save_new the rows of df, save_old the file at path when   *)
(* the call began.                                                           *)

SaveRows == {<<NameA1, TextH>>, <<NameA3, TextK>>}
MaxSaveRows == 2
SaveTables == UNION {[1..n -> SaveRows] : n \in 0..MaxSaveRows}

\* where df.to_csv writes: tmp = path + ".tmp"
WritesToDest == "dest"
WritesTo == "tmp"

InitAtomic ==
    /\ dir = FolderOf(StoreImages)
    /\ SessionInit /\ StoreIdle /\ SaveIdle /\ FilterIdle
    /\ last = [op |-> "init"]

atomicFrame == <<dir, sessionVars, caps_file, land_file, pick_file, filterVars>>

\* save_csv_atomic is called with a table
BeginSave(table) ==
    /\ save_pc = "idle"
    /\ save_pc' = "open"
    /\ save_old' = dest_file
    /\ save_new' = table
    /\ last' = [op |-> "begin"]
    /\ UNCHANGED <<tmp_file, dest_file, atomicFrame>>

\* to_csv opens its file for writing, which empties it
OpenTmp ==
    /\ save_pc = "open"
    /\ save_pc' = "write"
    /\ IF WritesTo = "tmp"
       THEN tmp_file' = [exists |-> TRUE, rows |-> <<>>] /\ UNCHANGED dest_file
       ELSE dest_file' = [exists |-> TRUE, rows |-> <<>>] /\ UNCHANGED tmp_file
    /\ last' = [op |-> "open"]
    /\ UNCHANGED <<save_old, save_new, atomicFrame>>

\* to_csv writes the next row
WriteRow ==
    /\ save_pc = "write"
    /\ LET f == IF WritesTo = "tmp" THEN tmp_file ELSE dest_file
           g == [f EXCEPT !.rows = Append(f.rows, save_new[Len(f.rows) + 1])]
       IN  /\ Len(f.rows) < Len(save_new)
           /\ IF WritesTo = "tmp"
              THEN tmp_file' = g /\ UNCHANGED dest_file
              ELSE dest_file' = g /\ UNCHANGED tmp_file
    /\ last' = [op |-> "row"]
    /\ UNCHANGED <<save_pc, save_old, save_new, atomicFrame>>

\* to_csv has written every row and closes the file
CloseTmp ==
    /\ save_pc = "write"
    /\ Len((IF WritesTo = "tmp" THEN tmp_file ELSE dest_file).rows) = Len(save_new)
    /\ save_pc' = "replace"
    /\ last' = [op |-> "close"]
    /\ UNCHANGED <<tmp_file, dest_file, save_old, save_new, atomicFrame>>

\* os.replace(tmp, path): one atomic step; it raises when tmp does not exist
Replace ==
    /\ save_pc = "replace"
    /\ save_pc' = "idle"
    /\ IF tmp_file.exists
       THEN dest_file' = tmp_file /\ tmp_file' = NoFile
       ELSE UNCHANGED <<tmp_file, dest_file>>
    /\ last' = [op |-> "replace"]
    /\ UNCHANGED <<save_old, save_new, atomicFrame>>

\* the process is killed during the call; the files stay as they are
Crash ==
    /\ save_pc # "idle"
    /\ save_pc' = "idle"
    /\ last' = [op |-> "crash", at |-> save_pc]
    /\ UNCHANGED <<tmp_file, dest_file, save_old, save_new, atomicFrame>>

NextAtomic ==
    \/ \E t \in SaveTables : BeginSave(t)
    \/ OpenTmp
    \/ WriteRow
    \/ CloseTmp
    \/ Replace
    \/ Crash

SpecAtomic == InitAtomic /\ [][NextAtomic]_vars

----------------------------------------------------------------------------
(* Claims about the classifier and the renamer (SpecFiles) *)

\* f is image_<sn>_<digits>.<alphanumeric extension>, stated by its parts
IsCanonical(sn, f) ==
    LET pre == ImagePrefix \o sn \o <<"_">>
    IN  \E nd \in 1..Len(f), ne \in 1..Len(f) :
            /\ Len(f) = Len(pre) + nd + 1 + ne
            /\ SubSeq(f, 1, Len(pre)) = pre
            /\ \A i \in 1..nd : IsDigit(f[Len(pre) + i])
            /\ f[Len(pre) + nd + 1] = "."
            /\ \A i \in 1..ne : IsAlnum(f[Len(pre) + nd + 1 + i])

\* the serial of a canonical name: its digit group, read as a number
CanonicalSerial(sn, f) ==
    LET pre == ImagePrefix \o sn \o <<"_">>
        nd == CHOOSE n \in 1..Len(f) :
                  /\ \A i \in 1..n : IsDigit(f[Len(pre) + i])
                  /\ f[Len(pre) + n + 1] = "."
    IN  ParseInt(SubSeq(f, Len(pre) + 1, Len(pre) + nd))

PosIn(s, x) == CHOOSE i \in DOMAIN s : s[i] = x
\* a is a subsequence of b, in b's order (b has no repeated element)
IsOrderedPart(a, b) ==
    /\ Range(a) \subseteq Range(b)
    /\ \A i, j \in DOMAIN a : i < j => PosIn(b, a[i]) < PosIn(b, a[j])

\* C3: a successful run of rename_invalids_to_valid gives the k-th invalid file the
\* name image_<shortname>_<M + k><its extension>, where M is the largest canonical
\* serial among the valid files (0 if there is none); so every serial it assigns
\* exceeds the serial of every valid file.
C3_SerialAllocation ==
    (last.op = "rename" /\ ~last.raised) =>
        LET M == IF valid = <<>> THEN 0
                 ELSE CHOOSE n \in {CanonicalSerial(shortname, valid[i]) : i \in DOMAIN valid} :
                          \A i \in DOMAIN valid : CanonicalSerial(shortname, valid[i]) <= n
        IN  /\ Len(last.renamed) = Len(invalid)
            /\ \A k \in DOMAIN invalid :
                   last.renamed[k] =
                       <<invalid[k],
                         ImagePrefix \o shortname \o <<"_">> \o FormatInt(M + k)
                             \o SplitExt(invalid[k])>>

\* C4: validate_images returns a strict partition of the sorted image listing, in
\* the order of the listing, and a name is valid iff it is canonical for the
\* shortname taken literally.
C4_ClassifierPartition ==
    last.op = "classify" =>
        /\ Range(all_imgs) = {f \in DOMAIN dir : \E e \in IMG_EXTS : EndsWith(Lower(f), e)}
        /\ \A i \in 1..(Len(all_imgs) - 1) : StrLess(all_imgs[i], all_imgs[i + 1])
        /\ Range(valid) \cup Range(invalid) = Range(all_imgs)
        /\ Range(valid) \cap Range(invalid) = {}
        /\ Len(valid) + Len(invalid) = Len(all_imgs)
        /\ IsOrderedPart(valid, all_imgs)
        /\ IsOrderedPart(invalid, all_imgs)
        /\ \A f \in Range(all_imgs) : f \in Range(valid) <=> IsCanonical(shortname, f)

C4_Witness ==
    /\ last.op = "classify"
    /\ shortname = ShortDot
    /\ NameDot2 \in Range(valid)
    /\ NameY3 \in Range(invalid)
    /\ NameNotes \in DOMAIN dir

\* C12: when the rename of the k-th invalid file fails, the k - 1 renames before
\* it stay applied (each earlier file is found under its new name and no longer
\* under its old one), the k-th and later files keep their names, and
\* validate_images on the folder then lists the new names as valid and exactly
\* the k-th and later files as invalid.
C12_PartialRename ==
    (last.op = "rename" /\ last.raised) =>
        LET done == Len(last.renamed)
            after == validate_images(dir, shortname)
        IN  /\ \A i \in 1..done :
                   /\ last.renamed[i][1] = invalid[i]
                   /\ invalid[i] \notin DOMAIN dir
                   /\ last.renamed[i][2] \in DOMAIN dir
                   /\ dir[last.renamed[i][2]] = last.dir0[invalid[i]]
                   /\ last.renamed[i][2] \in Range(after.valids)
            /\ \A i \in (done + 1)..Len(invalid) :
                   /\ invalid[i] \in DOMAIN dir
                   /\ dir[invalid[i]] = last.dir0[invalid[i]]
            /\ after.invalids = SubSeq(invalid, done + 1, Len(invalid))

\* the names in the folder just before the i-th rename of the last invocation
NamesBefore(i) ==
    (DOMAIN last.dir0 \ {last.renamed[j][1] : j \in 1..(i - 1)})
        \cup {last.renamed[j][2] : j \in 1..(i - 1)}

\* C17: rename_invalids_to_valid, given what validate_images has just returned,
\* never renames a file to a name that a file of the folder has at that moment,
\* and the folder holds as many image files after the call as before.
C17_NoOverwrite ==
    last.op = "rename" =>
        /\ \A i \in DOMAIN last.renamed : last.renamed[i][2] \notin NamesBefore(i)
        /\ Len(list_images(dir)) = Len(list_images(last.dir0))

\* C18: after a rename that ended without an error, validate_images with the
\* same shortname finds no invalid image, finds every file that was valid still
\* valid under its name, finds every file that was invalid as valid under its
\* new name, and finds as many valid images as the folder listed before.
C18_RepairComplete ==
    (last.op = "rename" /\ ~last.raised) =>
        LET after == validate_images(dir, shortname)
        IN  /\ after.invalids = <<>>
            /\ \A i \in DOMAIN valid :
                   /\ valid[i] \in Range(after.valids)
                   /\ dir[valid[i]] = last.dir0[valid[i]]
            /\ Len(last.renamed) = Len(invalid)
            /\ \A i \in DOMAIN last.renamed :
                   /\ last.renamed[i][1] = invalid[i]
                   /\ last.renamed[i][2] \in Range(after.valids)
                   /\ dir[last.renamed[i][2]] = last.dir0[invalid[i]]
            /\ Len(after.valids) = Len(all_imgs)

----------------------------------------------------------------------------
(* Claims about the annotation store (SpecLand, SpecCaps) *)

RowsOf(rows, img) == {i \in DOMAIN rows : rows[i][1] = img}
RowCount(rows, r) == Cardinality({i \in DOMAIN rows : rows[i] = r})
SameRows(a, b) == \A r \in Range(a) \cup Range(b) : RowCount(a, r) = RowCount(b, r)

\* C1: from a missing or header-only landmarks.csv, after any Save Landmark
\* operations the file holds at most one row per image; right after
\* upsert(img, text) it holds exactly one row for img, with the stripped text; an
\* upsert on an image that has a row overwrites it and adds no row.
C1_LandmarkUpsert ==
    /\ \A img \in StoreImages : Cardinality(RowsOf(land_file.rows, img)) <= 1
    /\ last.op = "landmark" =>
           /\ land_file.exists
           /\ Cardinality(RowsOf(land_file.rows, last.img)) = 1
           /\ \A i \in RowsOf(land_file.rows, last.img) :
                  land_file.rows[i][2] = Strip(last.text)
           /\ RowsOf(last.before.rows, last.img) # {} =>
                  /\ Len(land_file.rows) = Len(last.before.rows)
                  /\ RowsOf(land_file.rows, last.img) = RowsOf(last.before.rows, last.img)

\* an upsert replaced a different landmark of an image while another image has a row
C1_Witness ==
    /\ last.op = "landmark"
    /\ Len(land_file.rows) = 2
    /\ \E i \in RowsOf(last.before.rows, last.img) :
           /\ last.before.rows[i][2] # Strip(last.text)
           /\ last.before.rows[i][2] # <<>>
    /\ Strip(last.text) # last.text

\* C14: Save Landmark with text t for image i, pressed a second time with the
\* same text, leaves landmarks.csv as the first press left it, with exactly one
\* row for i, holding t stripped.
C14_UpsertIdempotent ==
    (/\ last.op = "landmark"
     /\ last.prev.op = "landmark"
     /\ last.prev.img = last.img
     /\ last.prev.text = last.text) =>
        /\ land_file = last.before
        /\ Cardinality(RowsOf(land_file.rows, last.img)) = 1
        /\ \A i \in RowsOf(land_file.rows, last.img) :
               land_file.rows[i][2] = Strip(last.text)

\* C2: add caption c to image i, then delete that caption of i: the file holds the
\* rows it held before the add, with the same multiplicities.
C2_AppendDeleteRoundTrip ==
    (/\ last.op = "delete"
     /\ last.prev.op = "add"
     /\ Strip(last.prev.text) # <<>>
     /\ last.prev.img = last.img
     /\ last.text = Strip(last.prev.text))
        => SameRows(caps_file.rows, last.prev.before.rows)

\* C9: delete(i, c) removes every row <<i, c>> of captions.csv and leaves every
\* other row as it was, in the same order; landmarks.csv is not touched.
C9_DeleteFrame ==
    last.op = "delete" =>
        /\ caps_file.rows =
               SelectSeq(last.before.rows, LAMBDA r : r # <<last.img, last.text>>)
        /\ land_file = NoFile

----------------------------------------------------------------------------
(* Claims about the filter helpers (SpecFilter) *)

CountIn(m, img) == IF img \in DOMAIN m THEN Len(m[img]) ELSE 0
LandmarkIn(m, img) == IF img \in DOMAIN m THEN m[img] ELSE <<>>

\* C5: apply_filters returns exactly the images with
\* cap_min <= caption count <= cap_max whose landmark is the one asked for (any
\* landmark when "Any" is asked for), in the order of valid_images; an image in
\* neither map has 0 captions and the empty landmark.
C5_ApplyFilters ==
    last.op = "apply" =>
        /\ Range(fout) =
               {img \in Range(valid) :
                   /\ cap_min <= CountIn(fin.caps, img)
                   /\ CountIn(fin.caps, img) <= cap_max
                   /\ landmark_filter = AnyOption
                          \/ LandmarkIn(fin.land, img) = landmark_filter}
        /\ Len(fout) = Cardinality(Range(fout))
        /\ IsOrderedPart(fout, valid)
        /\ (cap_min = 0 /\ cap_max = 0 /\ landmark_filter = AnyOption) =>
               Range(fout) = {img \in Range(valid) : CountIn(fin.caps, img) = 0}

\* a landmark and a count range that keep two of three images
C5_Witness ==
    /\ last.op = "apply"
    /\ Len(valid) = 3
    /\ landmark_filter = TextK
    /\ cap_min = 1
    /\ cap_max = 2
    /\ Len(fout) = 2

\* the largest caption count of an image of valid (0 for the empty list)
MaxCountOfValid ==
    LET counts == {CountIn(fin.caps, valid[i]) : i \in DOMAIN valid} \cup {0}
    IN  CHOOSE n \in counts : \A k \in counts : k <= n

\* C15: build_filters returns count_options = 0, 1, ..., M, where M is the
\* largest caption count of an image of valid_images (images outside the list
\* do not count); for the empty list it returns [0] and ["Any"].
C15_CountOptions ==
    last.op = "build" =>
        /\ Len(fout.count_options) = MaxCountOfValid + 1
        /\ fout.count_options[1] = 0
        /\ fout.count_options[Len(fout.count_options)] = MaxCountOfValid
        /\ \A i \in 1..(Len(fout.count_options) - 1) :
               fout.count_options[i + 1] = fout.count_options[i] + 1
        /\ valid = <<>> =>
               /\ fout.count_options = <<0>>
               /\ fout.landmark_options = <<AnyOption>>

\* counts 0 and 2 occur among the listed images, 1 does not, and an image
\* outside the list has captions
C15_Witness ==
    /\ last.op = "build"
    /\ fout.count_options = <<0, 1, 2>>
    /\ valid = <<NamePhoto, NameA1>>
    /\ CountIn(fin.caps, NameA1) = 2
    /\ CountIn(fin.caps, NameA3) = 1

\* C16: build_filters returns landmark_options = "Any" followed by the
\* landmarks of the images of valid_images that are not empty, each once, in
\* ascending order; an image without a landmark, with the empty landmark or
\* outside the list gives nothing.
C16_LandmarkOptions ==
    last.op = "build" =>
        LET opts == fout.landmark_options
            rest == Tail(opts)
        IN  /\ opts # <<>>
            /\ opts[1] = AnyOption
            /\ Range(rest) =
                   {LandmarkIn(fin.land, valid[i]) : i \in DOMAIN valid} \ {<<>>}
            /\ \A i \in 1..(Len(rest) - 1) : StrLess(rest[i], rest[i + 1])

\* two landmarks listed against the order of their images, an image without
\* a landmark between them
C16_Witness ==
    /\ last.op = "build"
    /\ valid = <<NameA1, NamePhoto, NameA3>>
    /\ LandmarkIn(fin.land, NameA1) = TextK
    /\ LandmarkIn(fin.land, NameA3) = TextH
    /\ fout.landmark_options = <<AnyOption, TextH, TextK>>

----------------------------------------------------------------------------
(* Claims about save_csv_atomic (SpecAtomic) *)

\* C8: whatever step the process is killed at, the file at the destination path
\* is, at every moment, the complete table it held when the save began or the
\* complete new table.
C8_AtomicSave ==
    \/ dest_file = save_old
    \/ dest_file = [exists |-> TRUE, rows |-> save_new]

\* killed in the middle of writing a two-row table over a different two-row table
C8_Witness ==
    /\ last.op = "crash"
    /\ last.at = "write"
    /\ Len(save_new) = 2
    /\ Len(tmp_file.rows) = 1
    /\ dest_file.exists
    /\ Len(dest_file.rows) = 2
    /\ dest_file.rows # save_new

----------------------------------------------------------------------------
(* Claims about the pages (Spec) *)

PickerWays == {"script", "launch", "nowrite", "write"}

\* C6: the page becomes "caption" only by "Go to captioning" pressed while no
\* image is invalid, or by "Proceed anyway" pressed in the confirmation (the
\* confirmation flag set and invalid images present); "Go to captioning" pressed
\* while images are invalid stays on the validation page and raises the
\* confirmation; "Cancel" stays on the validation page, keeps the valid and the
\* invalid list and withdraws the confirmation.
C6_AnnotateGate ==
    [][/\ (page # "caption" /\ page' = "caption") =>
              \/ GoToCaptioning /\ invalid = <<>> /\ invalid' = <<>>
              \/ ProceedAnyway /\ confirm_caption_anyway /\ Len(invalid) > 0
       /\ (GoToCaptioning /\ Len(invalid') > 0) =>
              /\ page' = "validate"
              /\ confirm_caption_anyway'

       /\ CancelConfirm =>
              /\ page' = "validate"
              /\ valid' = valid
              /\ invalid' = invalid
              /\ ~confirm_caption_anyway'
      ]_vars

\* the captioning page entered through the confirmation, invalid images present
C6_Witness ==
    /\ page = "caption"
    /\ confirm_caption_anyway
    /\ folder = FolderD
    /\ invalid = <<NamePhoto>>
    /\ valid = <<NameA1>>
    /\ caps_file.exists

\* C7: "Select Folder" moves to the validation page exactly when the picker
\* wrote a path that is not blank and it was read back, and then the session
\* folder is that path, stripped; when the picker could not run, ended without
\* a result, gave a blank result or the result could not be read, the page
\* stays "select" and the session folder is unchanged.
C7_SelectToValidate ==
    [][\A removeFails \in BOOLEAN, how \in PickerWays,
          content \in PickContents \cup {<<>>}, readFails \in BOOLEAN :
           ((how # "write" => content = <<>>)
            /\ SelectFolder(removeFails, how, content, readFails)) =>
               IF how = "write" /\ ~readFails /\ Strip(content) # <<>>
               THEN page' = "validate" /\ folder' = Strip(content)
               ELSE page' = "select" /\ folder' = folder
      ]_vars

\* C10: a blank shortname leaves shortname, valid, invalid, all_imgs and the
\* files of the folder unchanged; "Apply Filter" with min above max leaves
\* cap_min, cap_max, landmark_filter and filter_applied unchanged; "Add caption"
\* with blank text leaves captions.csv unchanged.
C10_InputErrors ==
    [][/\ \A text \in SessionShortnames :
              (Strip(text) = <<>> /\ SubmitShortname(text)) =>
                  UNCHANGED <<shortname, valid, invalid, all_imgs, dir>>
       /\ \A c_min \in 0..MaxCaps, c_max \in 0..MaxCaps,
             lm_choice \in {AnyOption} \cup SessionLandmarks :
              (c_min > c_max /\ ApplyFilter(c_min, c_max, lm_choice)) =>
                  UNCHANGED <<cap_min, cap_max, landmark_filter, filter_applied>>
       /\ \A text \in SessionCaptions :
              (Strip(text) = <<>> /\ AddCaption(text)) => UNCHANGED caps_file
      ]_vars

\* min above max refused while an earlier filter is in force
C10_Witness ==
    /\ last.op = "min_gt_max"
    /\ filter_applied
    /\ cap_min = 1
    /\ cap_max = 1
    /\ landmark_filter = TextK

\* the largest number of captions.csv rows of one valid image (0 when none)
MaxCaptionCount ==
    LET df == read_csv(caps_file.rows)
        counts == {Len(captions_of(df, valid[i])) : i \in DOMAIN valid} \cup {0}
    IN  CHOOSE n \in counts : \A k \in counts : k <= n

\* the landmarks.csv landmarks of the valid images that are not empty
ObservedLandmarks ==
    {landmark_of(read_csv(land_file.rows), valid[i]) : i \in DOMAIN valid} \ {<<>>}

\* C11: in every state of the session cap_min <= cap_max, both lie in
\* 0..(largest caption count of a valid image), and landmark_filter is "Any" or
\* a non-empty landmark that a valid image has now.
C11_FilterCriteria ==
    /\ cap_min <= cap_max
    /\ cap_min \in 0..MaxCaptionCount
    /\ cap_max \in 0..MaxCaptionCount
    /\ landmark_filter = AnyOption \/ landmark_filter \in ObservedLandmarks

\* C13: "Back to validation" turns the page to "validate" and "Back to folder
\* selection" turns it to "select"; neither changes folder, shortname, cap_min,
\* cap_max, landmark_filter, captions.csv or landmarks.csv.
C13_BackKeepsState ==
    [][/\ BackToValidation =>
              /\ page' = "validate"
              /\ UNCHANGED <<folder, shortname, cap_min, cap_max, landmark_filter,
                             caps_file, land_file>>
       /\ BackToSelect =>
              /\ page' = "select"
              /\ UNCHANGED <<folder, shortname, cap_min, cap_max, landmark_filter,
                             caps_file, land_file>>
      ]_vars

\* back on the first page after a filter was applied and a caption was written
C13_Witness ==
    /\ page = "select"
    /\ folder = FolderD
    /\ shortname = ShortA
    /\ filter_applied
    /\ cap_min = 1
    /\ caps_file.rows # <<>>

\* C19: a run that arrives on the validation page from the folder selection or
\* from the captioning page does not draw the "Proceed anyway" confirmation;
\* the confirmation is drawn anew only by "Go to captioning".
C19_ConfirmNotPending ==
    [][/\ (page # "validate" /\ page' = "validate") => ~ConfirmVisible'
       /\ (~ConfirmVisible /\ ConfirmVisible') => GoToCaptioning
      ]_vars

\* the index held by the session selects an image of the filtered list
CursorInBounds ==
    LET filtered == Filtered(valid, caps_file, land_file, cap_min, cap_max,
                             landmark_filter)
    IN  /\ filtered # <<>>
        /\ caption_index >= 0
        /\ caption_index <= Len(filtered) - 1

\* the index held by the session is the last of the filtered list
CursorAtEnd ==
    caption_index = Len(Filtered(valid, caps_file, land_file, cap_min, cap_max,
                                 landmark_filter)) - 1

\* C20: after every run in which the captioning page shows an image, the
\* filtered list is not empty and 0 <= caption_index <= len(filtered_images) - 1;
\* "Prev" at index 0 and "Next" at the last index leave caption_index as it is.
C20_CursorBounds ==
    /\ [](CaptionFull => CursorInBounds)
    /\ [][/\ (caption_index = 0 /\ Prev) => caption_index' = caption_index
          /\ (CursorAtEnd /\ NextImage) => caption_index' = caption_index
         ]_vars

\* two valid images of which the filter in force keeps one
C20_Witness ==
    /\ CaptionFull
    /\ Len(valid) = 2
    /\ filter_applied
    /\ cap_max = 0
    /\ Filtered(valid, caps_file, land_file, cap_min, cap_max, landmark_filter)
           = <<valid[1]>>
    /\ caption_index = 0

====
